---- MODULE Spec2Model ----
(***************************************************************************)
(* State-machine model of src/src/storage/TransactionProvider.tsx: the     *)
(* three operations of useTransactionHook (makeBurnTxn, makePaymentTxn,    *)
(* calculatePaymentTxnFee), the useEffect that configures the SDK, the     *)
(* default context value, and the collaborators the operations talk to     *)
(* (keypair storage, the account query and its cache, the chain, the SDK's *)
(* global fee configuration).  Every await of an async operation is a      *)
(* separate step, so invocations interleave exactly at their await points. *)
(***************************************************************************)
EXTENDS Integers, Sequences, FiniteSets, TLC

\* Bounds of the model.
MaxInvocations == 2
MaxNonce == 1

VARIABLES
  keypairStore,    \* what getKeypair resolves to: None or Some(keypair)
  currentAccount,  \* useAccountStorage().currentAccount: None or Some([address])
  clientReady,     \* the provider's clientReady prop
  txnVarsData,     \* data of useTxnConfigVarsQuery: None or Some([txnConfigVars])
  sdkConfig,       \* the SDK's static Transaction configuration (global)
  chainAccount,    \* the account as the network knows it
  cache,           \* the GraphQL client's cached account-query result
  inv              \* the invocations, numbered in the order they were made

vars == <<keypairStore, currentAccount, clientReady, txnVarsData, sdkConfig,
          chainAccount, cache, inv>>

----------------------------------------------------------------------------
\* Optional values (undefined / null of the source).
None == <<>>
Some(v) == <<v>>
IsSome(m) == m # <<>>
Get(m) == m[1]

\* JavaScript truthiness of an optional number (undefined and 0 are falsy).
TruthyNumber(m) == IsSome(m) /\ Get(m) # 0

----------------------------------------------------------------------------
\* Addresses.  A base58 string decodes to an address (its key bytes) or the
\* decoder throws; Address.b58 encodes back.
EMPTY_B58 == "13PuqyWXzPYeXcF1B9ZRx7RLkEygeL374ZABiQdwRSNzASdA1sn"

ValidB58 == {"A1", "A2", "A3", EMPTY_B58}

KeyBytes(s) ==
  CASE s = "A1" -> 11
    [] s = "A2" -> 22
    [] s = "A3" -> 33
    [] OTHER -> 0

AddressIsValid(s) == s \in ValidB58

AddressFromB58(s) == [publicKey |-> KeyBytes(s)]

AddressB58(a) == CHOOSE s \in ValidB58 : KeyBytes(s) = a.publicKey

EMPTY_B58_ADDRESS == AddressFromB58(EMPTY_B58)

\* The message of the error the SDK's decoder throws on a string that is no
\* base58check address.
SdkAddressError == "Non-base58 character"

\* The keypair of the wallet's account.
Keypair1 == [address |-> AddressFromB58("A1"), secret |-> 101]

----------------------------------------------------------------------------
\* The SDK's fee configuration and fee computation.
SdkDefaultConfig == [dcPayloadSize |-> 24, txnFeeMultiplier |-> 0]

ChainVars == [dcPayloadSize |-> 24, txnFeeMultiplier |-> 5000]

\* Transaction.config(vars): the given variables overwrite the static ones.
TransactionConfig(cfg, v) ==
  [dcPayloadSize |-> v.dcPayloadSize, txnFeeMultiplier |-> v.txnFeeMultiplier]

CeilDiv(a, b) == (a + b - 1) \div b

\* Transaction.calculateFee(payload) under a configuration.
CalculateFee(cfg, bytes) == CeilDiv(bytes, cfg.dcPayloadSize) * cfg.txnFeeMultiplier

PaymentBytes(payments) == 40 + 45 * Len(payments)

\* new PaymentV2({ payer, payments, nonce }): the fee is computed by the
\* constructor from the configuration current at that moment.
NewPaymentV2(cfg, payer, payments, nonce) ==
  [type |-> "payment_v2", payer |-> payer, payments |-> payments,
   nonce |-> nonce, fee |-> CalculateFee(cfg, PaymentBytes(payments)),
   signature |-> None]

\* new TokenBurnV1({ payer, payee, amount, nonce, memo }).
NewTokenBurnV1(cfg, payer, payee, amount, nonce, memo) ==
  [type |-> "token_burn_v1", payer |-> payer, payee |-> payee,
   amount |-> amount, nonce |-> nonce, memo |-> memo,
   fee |-> CalculateFee(cfg, 90), signature |-> None]

\* txn.sign({ payer: keypair }): the same transaction, carrying the signature
\* made with the keypair's secret.
Sign(txn, keypair) == [txn EXCEPT !.signature = Some(keypair.secret)]

\* new Balance(amount, CurrencyType.dataCredit).
DataCreditBalance(n) == [integerBalance |-> n, type |-> "dc"]

\* encodeMemoString of components/MemoInput: the memo in its encoded form.
encodeMemoString(memo) == [base64 |-> memo]

----------------------------------------------------------------------------
\* Inputs.
Entry(p, n, m) == [payee |-> p, balanceAmount |-> [integerBalance |-> n, type |-> "hnt"], memo |-> m]

PaymentInputs ==
  { << Entry("A2", 5, "rent"), Entry("A3", 7, "") >>,
    << Entry("", 5, "rent"), Entry("zz", 1, ""), Entry("A2", 7, "x") >> }

BurnArgs(p, a, n, m, dc, mult) ==
  [payeeB58 |-> p, amount |-> a, nonce |-> n, memo |-> m,
   dcPayloadSize |-> dc, txnFeeMultiplier |-> mult]

NoBurnArgs == BurnArgs("", 0, 0, "", None, None)

BurnInputs ==
  { BurnArgs("A2", 10, 3, "bWVtbw==", Some(48), Some(1000)),
    BurnArgs("A3", 10, 3, "", Some(48), Some(0)),
    BurnArgs("zz", 10, 3, "", Some(48), Some(1000)) }

----------------------------------------------------------------------------
\* The pieces of the operations' code.

\* if (!keypair) throw new Error('missing keypair')
MissingKeypair(keypair) == ~IsSome(keypair)

\* typeof freshAccountData?.account?.speculativeNonce !== 'number'
SpeculativeNonceOf(data) ==
  IF IsSome(data) /\ IsSome(Get(data).account)
    THEN Get(Get(data).account).speculativeNonce
    ELSE None

\* (mutant) `!speculativeNonce` in place of the typeof test: 0 is refused.
NoTruthySpeculativeNonce(data) == ~TruthyNumber(SpeculativeNonceOf(data))

NoNumericSpeculativeNonce(data) == ~IsSome(SpeculativeNonceOf(data))

\* (mutant) the confirmed nonce is read in place of the speculative one.
PaymentNonceConfirmed(data) == Get(Get(Get(data).account).nonce) + 1

\* nonce: freshAccountData.account.speculativeNonce + 1
PaymentNonce(data) == Get(SpeculativeNonceOf(data)) + 1

\* Address.fromB58 throws on some payee of the list.
SomePayeeUndecodable(details) ==
  \E k \in 1..Len(details) : ~AddressIsValid(details[k].payee)

\* paymentDetails.map(...) of makePaymentTxn
PaymentEntry(d) ==
  [payee |-> AddressFromB58(d.payee),
   amount |-> d.balanceAmount.integerBalance,
   memo |-> encodeMemoString(d.memo)]

\* (mutant) the payments come out in reverse order.
MapPaymentDetailsReversed(details) ==
  [k \in 1..Len(details) |-> PaymentEntry(details[Len(details) + 1 - k])]

MapPaymentDetails(details) == [k \in 1..Len(details) |-> PaymentEntry(details[k])]

\* txnJson of makePaymentTxn
PartialEntry(p) == [payee |-> AddressB58(p.payee), memo |-> p.memo, amount |-> p.amount]

PartialOf(txn) ==
  [type |-> txn.type,
   payments |-> [k \in 1..Len(txn.payments) |-> PartialEntry(txn.payments[k])],
   payer |-> IF IsSome(txn.payer) THEN Some(AddressB58(Get(txn.payer))) ELSE None,
   nonce |-> txn.nonce,
   fee |-> txn.fee]

\* if (dcPayloadSize && txnFeeMultiplier)
BurnConfigures(args) == TruthyNumber(args.dcPayloadSize) /\ TruthyNumber(args.txnFeeMultiplier)

BurnConfig(args) ==
  [dcPayloadSize |-> Get(args.dcPayloadSize), txnFeeMultiplier |-> Get(args.txnFeeMultiplier)]

\* (mutant) payer and payee are swapped.
BurnTxnOfSwapped(cfg, keypair, args) ==
  NewTokenBurnV1(cfg, AddressFromB58(args.payeeB58), keypair.address,
                 args.amount, args.nonce, args.memo)

\* new TokenBurnV1({ payer: keypair.address, payee, amount, nonce, memo })
BurnTxnOf(cfg, keypair, args) ==
  NewTokenBurnV1(cfg, keypair.address, AddressFromB58(args.payeeB58),
                 args.amount, args.nonce, args.memo)

\* currentAccount?.address || ''
AccountAddress(account) == IF IsSome(account) THEN Get(account).address ELSE ""

\* (mutant) the current-account check is missing.
NoCurrentAccountUnchecked(account) == FALSE

\* if (!currentAccount?.address) throw ...
NoCurrentAccount(account) == AccountAddress(account) = ""

\* data of the cache-only useAccountQuery: skipped without an address or a
\* ready client.
AccountData == IF AccountAddress(currentAccount) = "" \/ ~clientReady THEN None ELSE cache

\* address && Address.isValid(address) ? Address.fromB58(address) : EMPTY_B58_ADDRESS
FeePayee(address) ==
  IF address # "" /\ AddressIsValid(address) THEN AddressFromB58(address) ELSE EMPTY_B58_ADDRESS

FeeEntry(d) ==
  [payee |-> FeePayee(d.payee),
   amount |-> d.balanceAmount.integerBalance,
   memo |-> encodeMemoString(d.memo)]

MapFeeDetails(details) == [k \in 1..Len(details) |-> FeeEntry(details[k])]

\* (mutant) the cached speculative nonce is read in place of the nonce.
FeeNonceSpeculative(data) ==
  (IF TruthyNumber(SpeculativeNonceOf(data)) THEN Get(SpeculativeNonceOf(data)) ELSE 0) + 1

\* (accountData?.account?.nonce || 0) + 1
FeeNonce(data) ==
  (IF IsSome(data) /\ IsSome(Get(data).account) /\ TruthyNumber(Get(Get(data).account).nonce)
     THEN Get(Get(Get(data).account).nonce)
     ELSE 0) + 1

\* new Balance(paymentTxn.fee || 0, CurrencyType.dataCredit)
FeeResult(txn) == DataCreditBalance(txn.fee)

\* Error messages of the provider's own throw statements.
ErrMissingKeypair == "missing keypair"
ErrNoNonce == "Could not find speculative nonce for the current account"
ErrNoAccount == "Cannot calculate payment txn fee. Current account not found"

----------------------------------------------------------------------------
\* Invocations.
Invocations == 1..MaxInvocations

\* One invocation: the operation and whether it came from the provider or
\* from the context's default value, where it stands (pc), its arguments
\* (burn, details), the keypair and the fetch answer it got, the cached
\* account data and chain variables current when it built its transaction,
\* the transaction, the summary, what it resolved with or the error it
\* rejected with, and the collaborator calls it made, in order.
Idle ==
  [op |-> "idle", via |-> "provider", pc |-> "idle", burn |-> NoBurnArgs,
   details |-> <<>>, keypair |-> None, fresh |-> None, data |-> None,
   vars |-> None, txn |-> None, partial |-> None, result |-> None,
   error |-> "", calls |-> <<>>]

\* Invocation i may start: the invocations are numbered in call order.
CanStart(i) == inv[i].pc = "idle" /\ (IF i = 1 THEN TRUE ELSE inv[i - 1].pc # "idle")

Reject(r, msg) == [r EXCEPT !.pc = "rejected", !.error = msg]

\* What a fetch of the account can resolve to: no data (the request failed),
\* no such account, an account without a speculative nonce, or the account.
AccountRecord(n, s) == [nonce |-> n, speculativeNonce |-> s]

FetchOutcomes ==
  IF AccountAddress(currentAccount) = ""
    THEN { None, Some([account |-> None]) }
    ELSE { None, Some([account |-> None]),
           Some([account |-> Some(AccountRecord(Some(chainAccount.nonce), None))]),
           Some([account |-> Some(AccountRecord(Some(chainAccount.nonce),
                                                Some(chainAccount.speculativeNonce)))]) }

Init ==
  /\ \E a \in { None, Some([address |-> "A1"]) } :
       /\ currentAccount = a
       /\ keypairStore \in (IF IsSome(a) THEN { None, Some(Keypair1) } ELSE { None })
  /\ clientReady = FALSE
  /\ txnVarsData = None
  /\ sdkConfig = SdkDefaultConfig
  /\ \E n \in 0..MaxNonce : chainAccount = [nonce |-> n, speculativeNonce |-> n]
  /\ cache = None
  /\ inv = [i \in Invocations |-> Idle]

----------------------------------------------------------------------------
\* Collaborators.

\* The client becomes ready; the skipped queries start.
ClientReady ==
  /\ ~clientReady
  /\ clientReady' = TRUE
  /\ UNCHANGED <<keypairStore, currentAccount, txnVarsData, sdkConfig, chainAccount, cache, inv>>

\* useTxnConfigVarsQuery delivers the chain variables and the effect runs:
\* Transaction.config(txnVarsData.txnConfigVars).
TxnConfigVarsEffect ==
  /\ clientReady
  /\ txnVarsData = None
  /\ txnVarsData' = Some([txnConfigVars |-> ChainVars])
  /\ sdkConfig' = TransactionConfig(sdkConfig, ChainVars)
  /\ UNCHANGED <<keypairStore, currentAccount, clientReady, chainAccount, cache, inv>>

\* A transaction of the account is accepted by the network as pending.
ChainAdvance ==
  /\ chainAccount.speculativeNonce < MaxNonce
  /\ chainAccount' = [chainAccount EXCEPT !.speculativeNonce = @ + 1]
  /\ UNCHANGED <<keypairStore, currentAccount, clientReady, txnVarsData, sdkConfig, cache, inv>>

----------------------------------------------------------------------------
\* makeBurnTxn

\* The call: runs to `await getKeypair()`.
MakeBurnTxn(i) ==
  /\ CanStart(i)
  /\ \E args \in BurnInputs :
       inv' = [inv EXCEPT ![i] = [Idle EXCEPT !.op = "makeBurnTxn", !.pc = "awaitKeypair",
                                               !.burn = args,
                                               !.calls = <<"getKeypair">>]]
  /\ UNCHANGED <<keypairStore, currentAccount, clientReady, txnVarsData, sdkConfig, chainAccount, cache>>

\* (mutant) the fee configuration is applied before the keypair check.
BurnKeypairResolvedConfigFirst(i) ==
  /\ inv[i].op = "makeBurnTxn" /\ inv[i].pc = "awaitKeypair"
  /\ LET r == [inv[i] EXCEPT !.keypair = keypairStore]
         args == inv[i].burn
         cfg == IF BurnConfigures(args) THEN TransactionConfig(sdkConfig, BurnConfig(args))
                                       ELSE sdkConfig
     IN  /\ sdkConfig' = cfg
         /\ inv' = [inv EXCEPT ![i] =
               IF MissingKeypair(keypairStore)
                 THEN Reject(r, ErrMissingKeypair)
                 ELSE IF ~AddressIsValid(args.payeeB58)
                   THEN Reject(r, SdkAddressError)
                   ELSE [r EXCEPT !.pc = "awaitSign",
                                  !.txn = Some(BurnTxnOf(cfg, Get(keypairStore), args)),
                                  !.calls = @ \o (IF BurnConfigures(args) THEN <<"config">> ELSE <<>>)
                                              \o <<"construct", "sign">>]]
  /\ UNCHANGED <<keypairStore, currentAccount, clientReady, txnVarsData, chainAccount, cache>>

\* getKeypair resolved: the rest of the body up to the pending sign.
BurnKeypairResolved(i) ==
  /\ inv[i].op = "makeBurnTxn" /\ inv[i].pc = "awaitKeypair"
  /\ LET r == [inv[i] EXCEPT !.keypair = keypairStore]
         args == inv[i].burn
         cfg == IF BurnConfigures(args) THEN TransactionConfig(sdkConfig, BurnConfig(args))
                                       ELSE sdkConfig
     IN  IF MissingKeypair(keypairStore)
           THEN /\ inv' = [inv EXCEPT ![i] = Reject(r, ErrMissingKeypair)]
                /\ sdkConfig' = sdkConfig
           ELSE IF ~AddressIsValid(args.payeeB58)
             THEN /\ inv' = [inv EXCEPT ![i] = Reject(r, SdkAddressError)]
                  /\ sdkConfig' = sdkConfig
             ELSE /\ sdkConfig' = cfg
                  /\ inv' = [inv EXCEPT ![i] =
                       [r EXCEPT !.pc = "awaitSign",
                                 !.txn = Some(BurnTxnOf(cfg, Get(keypairStore), args)),
                                 !.calls = @ \o (IF BurnConfigures(args) THEN <<"config">> ELSE <<>>)
                                             \o <<"construct", "sign">>]]
  /\ UNCHANGED <<keypairStore, currentAccount, clientReady, txnVarsData, chainAccount, cache>>

\* sign resolved: the invocation returns the signed transaction.
BurnSignResolved(i) ==
  /\ inv[i].op = "makeBurnTxn" /\ inv[i].pc = "awaitSign"
  /\ inv' = [inv EXCEPT ![i] =
       [inv[i] EXCEPT !.pc = "resolved",
                      !.result = Some(Sign(Get(inv[i].txn), Get(inv[i].keypair)))]]
  /\ UNCHANGED <<keypairStore, currentAccount, clientReady, txnVarsData, sdkConfig, chainAccount, cache>>

----------------------------------------------------------------------------
\* makePaymentTxn

\* The call: runs to `await getKeypair()`.
MakePaymentTxn(i) ==
  /\ CanStart(i)
  /\ \E details \in PaymentInputs :
       inv' = [inv EXCEPT ![i] = [Idle EXCEPT !.op = "makePaymentTxn", !.pc = "awaitKeypair",
                                               !.details = details,
                                               !.calls = <<"getKeypair">>]]
  /\ UNCHANGED <<keypairStore, currentAccount, clientReady, txnVarsData, sdkConfig, chainAccount, cache>>

\* (mutant) a missing keypair is asked for once more before giving up.
PaymentKeypairResolvedRetry(i) ==
  /\ inv[i].op = "makePaymentTxn" /\ inv[i].pc = "awaitKeypair"
  /\ LET r == [inv[i] EXCEPT !.keypair = keypairStore]
     IN  inv' = [inv EXCEPT ![i] =
           IF MissingKeypair(keypairStore)
             THEN IF Len(r.calls) < 2 THEN [r EXCEPT !.calls = @ \o <<"getKeypair">>]
                                      ELSE Reject(r, ErrMissingKeypair)
             ELSE [r EXCEPT !.pc = "awaitFetch", !.calls = @ \o <<"fetchAccount">>]]
  /\ UNCHANGED <<keypairStore, currentAccount, clientReady, txnVarsData, sdkConfig, chainAccount, cache>>

\* getKeypair resolved: the keypair check, then the account fetch is issued.
PaymentKeypairResolved(i) ==
  /\ inv[i].op = "makePaymentTxn" /\ inv[i].pc = "awaitKeypair"
  /\ LET r == [inv[i] EXCEPT !.keypair = keypairStore]
     IN  inv' = [inv EXCEPT ![i] =
           IF MissingKeypair(keypairStore)
             THEN Reject(r, ErrMissingKeypair)
             ELSE [r EXCEPT !.pc = "awaitFetch", !.calls = @ \o <<"fetchAccount">>]]
  /\ UNCHANGED <<keypairStore, currentAccount, clientReady, txnVarsData, sdkConfig, chainAccount, cache>>

\* fetchAccount resolved (the client also writes what it got to its cache):
\* the nonce check, the transaction, its summary, and the pending sign.
PaymentFetchResolved(i) ==
  /\ inv[i].op = "makePaymentTxn" /\ inv[i].pc = "awaitFetch"
  /\ \E data \in FetchOutcomes :
       LET r == [inv[i] EXCEPT !.fresh = data]
           txn == NewPaymentV2(sdkConfig, Some(Get(r.keypair).address),
                               MapPaymentDetails(r.details), Some(PaymentNonce(data)))
       IN  /\ cache' = IF IsSome(data) THEN data ELSE cache
           /\ inv' = [inv EXCEPT ![i] =
                IF NoNumericSpeculativeNonce(data)
                  THEN Reject(r, ErrNoNonce)
                  ELSE IF SomePayeeUndecodable(r.details)
                    THEN Reject(r, SdkAddressError)
                    ELSE [r EXCEPT !.pc = "awaitSign", !.vars = txnVarsData,
                                   !.data = AccountData,
                                   !.txn = Some(txn), !.partial = Some(PartialOf(txn)),
                                   !.calls = @ \o <<"construct", "sign">>]]
  /\ UNCHANGED <<keypairStore, currentAccount, clientReady, txnVarsData, sdkConfig, chainAccount>>

\* sign resolved: the invocation returns { signedTxn, partialTxn }.
PaymentSignResolved(i) ==
  /\ inv[i].op = "makePaymentTxn" /\ inv[i].pc = "awaitSign"
  /\ inv' = [inv EXCEPT ![i] =
       [inv[i] EXCEPT !.pc = "resolved",
                      !.result = Some(Sign(Get(inv[i].txn), Get(inv[i].keypair)))]]
  /\ UNCHANGED <<keypairStore, currentAccount, clientReady, txnVarsData, sdkConfig, chainAccount, cache>>

----------------------------------------------------------------------------
\* calculatePaymentTxnFee: no await, the whole body is one step.
CalculatePaymentTxnFee(i) ==
  /\ CanStart(i)
  /\ \E details \in PaymentInputs :
       LET r == [Idle EXCEPT !.op = "calculatePaymentTxnFee", !.details = details]
           txn == NewPaymentV2(sdkConfig, Some(AddressFromB58(AccountAddress(currentAccount))),
                               MapFeeDetails(details), Some(FeeNonce(AccountData)))
       IN  inv' = [inv EXCEPT ![i] =
             IF NoCurrentAccount(currentAccount)
               THEN Reject(r, ErrNoAccount)
               ELSE [r EXCEPT !.pc = "resolved", !.txn = Some(txn),
                              !.data = AccountData, !.vars = txnVarsData,
                              !.result = Some(FeeResult(txn)),
                              !.calls = <<"construct">>]]
  /\ UNCHANGED <<keypairStore, currentAccount, clientReady, txnVarsData, sdkConfig, chainAccount, cache>>

----------------------------------------------------------------------------
\* The context's default value (useTransactions outside a provider).

\* initialState.makePaymentTxn
DefaultPartialTxn ==
  [type |-> "payment_v2", payments |-> <<>>, payer |-> Some(""), nonce |-> Some(0), fee |-> 0]

DefaultMakePaymentTxn(i) ==
  /\ CanStart(i)
  /\ inv' = [inv EXCEPT ![i] =
       [Idle EXCEPT !.op = "makePaymentTxn", !.via = "default", !.pc = "resolved",
                    !.result = Some(NewPaymentV2(sdkConfig, Some(EMPTY_B58_ADDRESS), <<>>, None)),
                    !.partial = Some(DefaultPartialTxn),
                    !.calls = <<"construct">>]]
  /\ UNCHANGED <<keypairStore, currentAccount, clientReady, txnVarsData, sdkConfig, chainAccount, cache>>

----------------------------------------------------------------------------
Next ==
  \/ ClientReady
  \/ TxnConfigVarsEffect
  \/ ChainAdvance
  \/ \E i \in Invocations :
       \/ MakeBurnTxn(i)
       \/ BurnKeypairResolved(i)
       \/ BurnSignResolved(i)
       \/ MakePaymentTxn(i)
       \/ PaymentKeypairResolved(i)
       \/ PaymentFetchResolved(i)
       \/ PaymentSignResolved(i)
       \/ CalculatePaymentTxnFee(i)
       \/ DefaultMakePaymentTxn(i)

Spec == Init /\ [][Next]_vars

----------------------------------------------------------------------------
\* Vocabulary of the properties, stated on the recorded invocations and on
\* the collaborators, independently of the operators the actions use.
OfProvider(i, op) == inv[i].op = op /\ inv[i].via = "provider"

Signing == {"makeBurnTxn", "makePaymentTxn"}

\* getKeypair has resolved for invocation i.
KeypairAnswered(i) == inv[i].op \in Signing /\ inv[i].via = "provider" /\ inv[i].pc # "awaitKeypair"

\* The account fetch of invocation i has resolved (its answer is inv[i].fresh).
Fetched(i) ==
  /\ OfProvider(i, "makePaymentTxn")
  /\ inv[i].pc \notin {"awaitKeypair", "awaitFetch"}
  /\ IsSome(inv[i].keypair)

\* The answer carries a number as speculativeNonce.
NumericNonce(data) ==
  /\ data # <<>>
  /\ data[1].account # <<>>
  /\ data[1].account[1].speculativeNonce # <<>>

Called(i, what) == \E k \in 1..Len(inv[i].calls) : inv[i].calls[k] = what

AtMostOnce(i, what) ==
  \A k, l \in 1..Len(inv[i].calls) :
    (inv[i].calls[k] = what /\ inv[i].calls[l] = what) => k = l

AllDecodable(details) == \A k \in 1..Len(details) : details[k].payee \in ValidB58

----------------------------------------------------------------------------
\* C1: in makeBurnTxn and makePaymentTxn, when getKeypair resolves to no
\* keypair, the invocation fails with 'missing keypair' in that very step,
\* which issues no account fetch, leaves the SDK fee configuration and the
\* cache as they were, and constructs and signs nothing; the failed
\* invocation does nothing afterwards.
C1_MissingKeypairStops ==
  [][\A i \in Invocations :
       /\ ( /\ inv[i].op \in Signing /\ inv[i].via = "provider"
            /\ inv[i].pc = "awaitKeypair" /\ inv'[i].pc # "awaitKeypair"
            /\ keypairStore = None )
          => /\ inv'[i].pc = "rejected"
             /\ inv'[i].error = "missing keypair"
             /\ inv'[i].calls = <<"getKeypair">>
             /\ inv'[i].txn = None /\ inv'[i].result = None
             /\ sdkConfig' = sdkConfig
             /\ cache' = cache
       /\ inv[i].error = "missing keypair" => inv'[i] = inv[i]]_vars

\* Both operations have failed on a missing keypair, the burn one having been
\* given a payload size and a fee multiplier to configure.
C1_Witness ==
  \E i, j \in Invocations :
    /\ OfProvider(i, "makeBurnTxn") /\ inv[i].error = "missing keypair"
    /\ TruthyNumber(inv[i].burn.dcPayloadSize) /\ TruthyNumber(inv[i].burn.txnFeeMultiplier)
    /\ OfProvider(j, "makePaymentTxn") /\ inv[j].error = "missing keypair"

----------------------------------------------------------------------------
\* C2 as stated: with a keypair, makePaymentTxn fails with the nonce error
\* exactly when the fetch answer has no numeric speculativeNonce, and then
\* nothing is signed; every numeric speculativeNonce makes it proceed to sign.
C2_AsStated ==
  \A i \in Invocations :
    Fetched(i) =>
      /\ (inv[i].error = "Could not find speculative nonce for the current account")
           <=> ~NumericNonce(inv[i].fresh)
      /\ ~NumericNonce(inv[i].fresh) => (inv[i].pc = "rejected" /\ ~Called(i, "sign"))
      /\ NumericNonce(inv[i].fresh) => Called(i, "sign")

\* C2 (amended): as above, except that after an accepted nonce the invocation
\* proceeds to sign only if every payee decodes; if one does not, it ends
\* with the decoder's error and signs nothing.
C2_NonceCheck ==
  \A i \in Invocations :
    Fetched(i) =>
      /\ (inv[i].error = "Could not find speculative nonce for the current account")
           <=> ~NumericNonce(inv[i].fresh)
      /\ ~NumericNonce(inv[i].fresh) => (inv[i].pc = "rejected" /\ ~Called(i, "sign"))
      /\ (NumericNonce(inv[i].fresh) /\ AllDecodable(inv[i].details))
           => (Called(i, "sign") /\ inv[i].pc \in {"awaitSign", "resolved"})
      /\ (NumericNonce(inv[i].fresh) /\ ~AllDecodable(inv[i].details))
           => (inv[i].pc = "rejected" /\ inv[i].error = SdkAddressError /\ ~Called(i, "sign"))

\* A payment with speculativeNonce 0 was signed, another one failed on an
\* answer without a nonce.
C2_Witness ==
  \E i, j \in Invocations :
    /\ Fetched(i) /\ inv[i].pc = "resolved"
    /\ NumericNonce(inv[i].fresh) /\ inv[i].fresh[1].account[1].speculativeNonce = <<0>>
    /\ Fetched(j) /\ ~NumericNonce(inv[j].fresh) /\ inv[j].pc = "rejected"

----------------------------------------------------------------------------
\* The provider's own throw statements.
OwnError(i) ==
  inv[i].error \in { "missing keypair",
                     "Could not find speculative nonce for the current account",
                     "Cannot calculate payment txn fee. Current account not found" }

KeypairMissingFor(i) == KeypairAnswered(i) /\ inv[i].pc # "idle" /\ inv[i].keypair = None

NonceMissingFor(i) == Fetched(i) /\ ~NumericNonce(inv[i].fresh)

AccountMissingFor(i) == OfProvider(i, "calculatePaymentTxnFee") /\ currentAccount = None

\* C3 as stated: an operation of the provider raises an error of its own
\* exactly when the keypair is missing or the account query returned no
\* numeric nonce; with no current account selected none does.
C3_AsStated ==
  \A i \in Invocations :
    inv[i].via = "provider" =>
      (OwnError(i) <=> (KeypairMissingFor(i) \/ NonceMissingFor(i)))

\* C3 (amended): there is a third condition, calculatePaymentTxnFee called
\* with no current account; each condition raises its own message.
C3_ThreeConditions ==
  \A i \in Invocations :
    inv[i].via = "provider" =>
      /\ OwnError(i) <=> (KeypairMissingFor(i) \/ NonceMissingFor(i) \/ AccountMissingFor(i))
      /\ KeypairMissingFor(i) <=> inv[i].error = "missing keypair"
      /\ NonceMissingFor(i)
           <=> inv[i].error = "Could not find speculative nonce for the current account"
      /\ AccountMissingFor(i)
           <=> inv[i].error = "Cannot calculate payment txn fee. Current account not found"

\* The fee calculator was called with no current account and failed.
C3_Witness ==
  \E i \in Invocations :
    /\ OfProvider(i, "calculatePaymentTxnFee") /\ currentAccount = None
    /\ inv[i].pc = "rejected"

----------------------------------------------------------------------------
\* The collaborator calls a makeBurnTxn / makePaymentTxn invocation can have
\* made, in order, when it runs to the end.
FullCalls(i) ==
  IF inv[i].op = "makePaymentTxn"
    THEN <<"getKeypair", "fetchAccount", "construct", "sign">>
    ELSE IF Called(i, "config") THEN <<"getKeypair", "config", "construct", "sign">>
                                ELSE <<"getKeypair", "construct", "sign">>

IsPrefix(a, b) == Len(a) <= Len(b) /\ \A k \in 1..Len(a) : a[k] = b[k]

\* C4: within one invocation of makeBurnTxn or makePaymentTxn, getKeypair,
\* the account fetch and sign are each called at most once, in the order
\* keypair, fetch (payment only), construction, signing; and a failed
\* invocation made no collaborator call after the step that failed.
C4_NoRetryInOrder ==
  \A i \in Invocations :
    (inv[i].op \in Signing /\ inv[i].via = "provider") =>
      /\ AtMostOnce(i, "getKeypair")
      /\ AtMostOnce(i, "fetchAccount")
      /\ AtMostOnce(i, "sign")
      /\ IsPrefix(inv[i].calls, FullCalls(i))
      /\ inv[i].op = "makeBurnTxn" => ~Called(i, "fetchAccount")
      /\ inv[i].pc = "rejected" =>
           /\ inv[i].txn = None /\ inv[i].result = None
           /\ inv[i].calls = (IF inv[i].keypair = None \/ inv[i].op = "makeBurnTxn"
                                THEN <<"getKeypair">>
                                ELSE <<"getKeypair", "fetchAccount">>)

\* A payment ran through all four calls while another one failed after its
\* fetch.
C4_Witness ==
  \E i, j \in Invocations :
    /\ OfProvider(i, "makePaymentTxn") /\ inv[i].pc = "resolved"
    /\ inv[i].calls = <<"getKeypair", "fetchAccount", "construct", "sign">>
    /\ OfProvider(j, "makePaymentTxn") /\ inv[j].pc = "rejected"
    /\ inv[j].calls = <<"getKeypair", "fetchAccount">>

----------------------------------------------------------------------------
\* The summary p mirrors the signed payment t field by field.
Mirrors(p, t) ==
  /\ p.type = t.type
  /\ p.payer = (IF t.payer = <<>> THEN <<>> ELSE <<AddressB58(t.payer[1])>>)
  /\ p.nonce = t.nonce
  /\ p.fee = t.fee
  /\ Len(p.payments) = Len(t.payments)
  /\ \A k \in 1..Len(t.payments) :
       /\ p.payments[k].payee = AddressB58(t.payments[k].payee)
       /\ p.payments[k].memo = t.payments[k].memo
       /\ p.payments[k].amount = t.payments[k].amount

\* C5: whenever a makePaymentTxn reachable through useTransactions resolves
\* (the provider's or the context's default one), the partialTxn it returns
\* mirrors the signedTxn it returns: type, payer, nonce, fee and the payments
\* in order.
C5_PartialMirrorsSigned ==
  \A i \in Invocations :
    (inv[i].op = "makePaymentTxn" /\ inv[i].pc = "resolved") =>
      Mirrors(inv[i].partial[1], inv[i].result[1])

----------------------------------------------------------------------------
\* C6: the burn transaction makeBurnTxn signs is built from the arguments
\* unchanged (amount, nonce, memo as given, payee decoded from payeeB58), its
\* payer is the address of the keypair getKeypair returned, and the returned
\* transaction is signed with that keypair.
C6_BurnForwardsArguments ==
  \A i \in Invocations :
    (OfProvider(i, "makeBurnTxn") /\ inv[i].pc \in {"awaitSign", "resolved"}) =>
      LET t == inv[i].txn[1]
          a == inv[i].burn
      IN  /\ keypairStore # <<>>
          /\ t.amount = a.amount /\ t.nonce = a.nonce /\ t.memo = a.memo
          /\ a.payeeB58 \in ValidB58 /\ t.payee.publicKey = KeyBytes(a.payeeB58)
          /\ t.payer = keypairStore[1].address
          /\ inv[i].pc = "resolved" =>
               /\ inv[i].result[1].signature = <<keypairStore[1].secret>>
               /\ [inv[i].result[1] EXCEPT !.signature = <<>>] = t

\* A burn with a non-empty memo was signed.
C6_Witness ==
  \E i \in Invocations :
    /\ OfProvider(i, "makeBurnTxn") /\ inv[i].pc = "resolved"
    /\ inv[i].burn.memo # ""

----------------------------------------------------------------------------
\* The fee the SDK computes for a payment list when only the chain variables
\* the query delivered (or, before they arrive, the SDK's defaults) configure
\* it: a function of the arguments and the collaborators' responses alone.
FeeOnItsOwn(txnVars, n) ==
  LET cfg == IF txnVars = <<>> THEN SdkDefaultConfig ELSE txnVars[1].txnConfigVars
  IN  ((40 + 45 * n + cfg.dcPayloadSize - 1) \div cfg.dcPayloadSize) * cfg.txnFeeMultiplier

\* C7: the operations share no mutable state: the fee calculatePaymentTxnFee
\* returns and the fee inside a payment makePaymentTxn builds depend only on
\* the arguments and the collaborators' responses, whatever other operations
\* (makeBurnTxn with dcPayloadSize and txnFeeMultiplier included) ran before
\* or are in flight.
C7_FeeIndependentOfHistory ==
  \A i \in Invocations :
    /\ (OfProvider(i, "calculatePaymentTxnFee") /\ inv[i].pc = "resolved")
         => inv[i].result[1].integerBalance = FeeOnItsOwn(inv[i].vars, Len(inv[i].details))
    /\ (OfProvider(i, "makePaymentTxn") /\ inv[i].txn # <<>>)
         => inv[i].txn[1].fee = FeeOnItsOwn(inv[i].vars, Len(inv[i].details))

----------------------------------------------------------------------------
SignedPayment(i) == OfProvider(i, "makePaymentTxn") /\ inv[i].pc = "resolved"

\* C8 as stated: no two signed payments carry the same nonce.
C8_AsStated ==
  \A i, j \in Invocations :
    (i # j /\ SignedPayment(i) /\ SignedPayment(j))
      => inv[i].result[1].nonce # inv[j].result[1].nonce

\* C8 (amended): two signed payments carry the same nonce exactly when their
\* own fetches returned the same speculativeNonce.
C8_NonceFollowsFetch ==
  \A i, j \in Invocations :
    (i # j /\ SignedPayment(i) /\ SignedPayment(j))
      => ( inv[i].result[1].nonce = inv[j].result[1].nonce
             <=> inv[i].fresh[1].account[1].speculativeNonce
                   = inv[j].fresh[1].account[1].speculativeNonce )

\* Two signed payments whose fetches saw different speculative nonces.
C8_Witness ==
  \E i, j \in Invocations :
    /\ SignedPayment(i) /\ SignedPayment(j)
    /\ inv[i].fresh[1].account[1].speculativeNonce # inv[j].fresh[1].account[1].speculativeNonce

----------------------------------------------------------------------------
\* C9: a signed payment has the keypair's address as payer, the
\* speculativeNonce of its own fetch plus one as nonce, and one payment per
\* input entry in input order: payee decoded from the entry's address, amount
\* the entry's integer balance, memo the encoding of the entry's memo.
C9_PaymentFromFreshNonce ==
  \A i \in Invocations :
    SignedPayment(i) =>
      LET t == inv[i].result[1]
          d == inv[i].details
      IN  /\ keypairStore # <<>>
          /\ t.payer = <<keypairStore[1].address>>
          /\ t.signature = <<keypairStore[1].secret>>
          /\ t.nonce = <<inv[i].fresh[1].account[1].speculativeNonce[1] + 1>>
          /\ Len(t.payments) = Len(d)
          /\ \A k \in 1..Len(d) :
               /\ d[k].payee \in ValidB58
               /\ t.payments[k].payee.publicKey = KeyBytes(d[k].payee)
               /\ t.payments[k].amount = d[k].balanceAmount.integerBalance
               /\ t.payments[k].memo = encodeMemoString(d[k].memo)

\* A payment of two entries was signed while the cached account still held
\* another speculative nonce than the one the fetch returned.
C9_Witness ==
  \E i \in Invocations :
    /\ SignedPayment(i) /\ Len(inv[i].details) = 2
    /\ NumericNonce(inv[i].data)
    /\ inv[i].data[1].account[1].speculativeNonce # inv[i].fresh[1].account[1].speculativeNonce

----------------------------------------------------------------------------
\* The nonce of the cached account, 0 when there is none.
CachedNonce(data) ==
  IF data = <<>> THEN 0
  ELSE IF data[1].account = <<>> THEN 0
  ELSE IF data[1].account[1].nonce = <<>> THEN 0
  ELSE data[1].account[1].nonce[1]

\* C10: with a current account, calculatePaymentTxnFee never fails: an entry
\* with an empty or invalid address is priced with EMPTY_B58_ADDRESS, a valid
\* one with its own address; number and order of the payments are the
\* input's; the nonce is the cached account nonce (0 when absent) plus one;
\* it calls neither getKeypair nor the account fetch nor sign; the result is
\* the transaction's fee as a data-credit balance.
C10_FeeCalculation ==
  \A i \in Invocations :
    (OfProvider(i, "calculatePaymentTxnFee") /\ currentAccount # <<>>) =>
      LET t == inv[i].txn[1]
          d == inv[i].details
      IN  /\ inv[i].pc = "resolved" /\ inv[i].error = ""
          /\ inv[i].calls = <<"construct">>
          /\ inv[i].keypair = <<>> /\ inv[i].fresh = <<>>
          /\ t.signature = <<>>
          /\ t.payer = <<[publicKey |-> KeyBytes(currentAccount[1].address)]>>
          /\ t.nonce = <<CachedNonce(inv[i].data) + 1>>
          /\ Len(t.payments) = Len(d)
          /\ \A k \in 1..Len(d) :
               /\ t.payments[k].payee.publicKey =
                    (IF d[k].payee \in ValidB58 THEN KeyBytes(d[k].payee) ELSE KeyBytes(EMPTY_B58))
               /\ t.payments[k].amount = d[k].balanceAmount.integerBalance
               /\ t.payments[k].memo = encodeMemoString(d[k].memo)
          /\ inv[i].result = <<[integerBalance |-> t.fee, type |-> "dc"]>>

\* A fee was calculated for a list with an empty, an invalid and a valid
\* payee while the cache held an account whose nonce and speculative nonce
\* differ.
C10_Witness ==
  \E i \in Invocations :
    /\ OfProvider(i, "calculatePaymentTxnFee") /\ inv[i].pc = "resolved"
    /\ \E k \in 1..Len(inv[i].details) : inv[i].details[k].payee = ""
    /\ \E k \in 1..Len(inv[i].details) : inv[i].details[k].payee = "zz"
    /\ NumericNonce(inv[i].data)
    /\ inv[i].data[1].account[1].nonce # inv[i].data[1].account[1].speculativeNonce
    /\ inv[i].result[1].integerBalance > 0

====
